---- MODULE Spec2Model ----
(***************************************************************************)
(* Trajectory data loading: the conversion cache of TrajectoryDataset and  *)
(* the length-bucket batcher DynamicBatchCollator                          *)
(* (src/test_data_set_load.py).                                            *)
(*                                                                         *)
(* Spec      : NumWorkers loader workers call __getitem__ concurrently on  *)
(*             one shared cache directory.                                 *)
(* SeqSpec   : the same operations with a single worker (no interleaving). *)
(* BatchSpec : DynamicBatchCollator.__call__ applied to a drawn input.     *)
(* CorruptSpec    : SeqSpec over a cache directory with truncated files.   *)
(* UnwritableSpec : SeqSpec over a cache directory that cannot be written. *)
(* BadConfigSpec  : BatchSpec with a zero or negative bin_size.            *)
(* CatalogSpec    : TrajectoryDataset.__init__ listing a data directory.   *)
(* LoaderSpec     : the script: DataLoader, dataset, collator, loop.       *)
(* CoercionSpec   : SeqSpec over CSV files with non-numeric cells.         *)
(* TerminateSpec  : SeqSpec with the process killed at any step.           *)
(* ConvertedSpec  : BatchSpec applied to the artifacts of the conversion.  *)
(* UiSpec         : the trajectory browser of src/win_by_grok.py.          *)
(***************************************************************************)
EXTENDS Integers, Sequences, FiniteSets, TLC

VARIABLES
    raw,          \* the CSV file behind every path of file_paths
    force_reload, \* TrajectoryDataset.force_reload
    store,        \* the files of cache_dir, by cache file name
    pc,           \* per worker: position inside __getitem__/_load_or_convert
    cur,          \* per worker: index into file_paths being loaded
    art,          \* per worker: the converted (tensor, length), or None
    pos,          \* per worker: offset of its open cache file handle
    result,       \* per worker: value returned by _load_or_convert
    converted,    \* per worker: this call went through the CSV conversion
    log,          \* history of the completed __getitem__ calls
    calls,        \* number of __getitem__ calls started
    aborted,      \* an exception of __getitem__ reached the training loop
    items,        \* the argument of DynamicBatchCollator.__call__
    cfg,          \* max_batch_size, max_seq_len and bin_size of the collator
    carved,       \* the list batches before np.random.shuffle
    out,          \* the list __call__ returns
    bstate,       \* "ready", then "returned" or "raised"
    plain,        \* what collate_fn returns for the tensors of items
    pstate,       \* "ready", then "returned"
    listing,      \* the entries of data_dir
    catalogs,     \* the file_paths of the datasets constructed over data_dir
    writable,     \* files of cache_dir can be opened for writing
    loader,       \* the DataLoader: "unbuilt", then "ready" or "raised"
    handed,       \* the values the DataLoader has yielded to the training loop
    stopped,      \* the run of the script has been told to end early
    current_trajectory_files, \* ShipTrajectorySystem: the filtered files
    current_file_index,       \* ShipTrajectorySystem: the file on display
    processors,   \* TrajectoryProcessor threads that have not yet reported
    shown,        \* the file plotted on the map canvas, 0 for none
    saved,        \* the files copied to save_folder
    index_error   \* a handler has raised IndexError

cacheVars == <<raw, force_reload, store, pc, cur, art, pos, result, converted,
               log, calls, aborted>>

batchVars == <<items, cfg, carved, out, bstate, plain, pstate>>

loaderVars == <<listing, catalogs, writable, loader, handed, stopped>>

uiVars == <<current_trajectory_files, current_file_index, processors, shown,
           saved, index_error>>

vars == <<cacheVars, batchVars, loaderVars, uiVars>>

----------------------------------------------------------------------------
(* Bounds *)

NumWorkers == 2
MaxCalls == 2
WriteChunk == 2
MaxItems == 2
MaxBatchSize == 3
MaxSeqLen == 2
MaxBinSize == 3

\* input lengths reach past the largest cap, so that truncation happens
MaxLen == MaxSeqLen + 1

Workers == 1..NumWorkers

----------------------------------------------------------------------------
(* Values *)

None == [none |-> TRUE]

Artifact(tensor, length) == [tensor |-> tensor, length |-> length]

Ts(v) == [k |-> "ts", v |-> v]
Num(v) == [k |-> "num", v |-> v]
Txt(v) == [k |-> "txt", v |-> v]
Bad == [k |-> "bad", v |-> 0]
NaN == [k |-> "nan", v |-> 0]

NumericCols == <<"lat", "lon", "sog", "cog">>

FeatureCols == <<"date">> \o NumericCols

Row(d, lat, lon, sog, cog) ==
    [date |-> d, lat |-> lat, lon |-> lon, sog |-> sog, cog |-> cog]

AllCols == {"date", "lat", "lon", "sog", "cog"}

TrackGood1 ==
    [columns |-> AllCols,
     rows |-> << Row(Ts(1700000001), Num(31), Num(121), Num(5), Num(90)) >>]

TrackGood2 ==
    [columns |-> AllCols,
     rows |-> << Row(Ts(1700000100), Txt(1234), Num(122), NaN, Num(45)),
                 Row(Ts(1700000200), Num(32), Num(122), Num(7), NaN) >>]

TrackBadDate ==
    [columns |-> AllCols,
     rows |-> << Row(Bad, Num(31), Num(121), Num(5), Num(90)) >>]

RawTracks == {TrackGood1, TrackGood2, TrackBadDate}

\* basenames of the *.csv files of data_dir, as their '.'-separated parts
file_paths == << <<"a", "csv">>, <<"a", "v2", "csv">>, <<"b", "csv">> >>

Indices == DOMAIN file_paths

\* fname = os.path.basename(path).split('.')[0]; cache file is fname.pkl
CacheName(path) == Head(path)

cache_map == [i \in Indices |-> CacheName(file_paths[i])]

CacheNames == {cache_map[i] : i \in Indices}

\* data_dir as the dataset of the script found it, its one catalog, a cache_dir
\* that can be written, and nothing yielded yet
LoaderIdle ==
    /\ listing = {file_paths[i] : i \in Indices}
    /\ catalogs = <<file_paths>>
    /\ writable = TRUE
    /\ loader = "unbuilt"
    /\ handed = <<>>
    /\ stopped = FALSE

\* ShipTrajectorySystem.__init__ of win_by_grok.py, lines 361-362: no filtered
\* files, index 0; no processor started, nothing plotted
UiIdle ==
    /\ current_trajectory_files = <<>>
    /\ current_file_index = 0
    /\ processors = 0
    /\ shown = 0
    /\ saved = {}
    /\ index_error = FALSE

NoFile == [exists |-> FALSE, data |-> <<>>]

File(data) == [exists |-> TRUE, data |-> data]

----------------------------------------------------------------------------
(* Conversion of one CSV file: _load_or_convert, lines 40-69 *)

RECURSIVE Pow2(_)
Pow2(n) == IF n = 0 THEN 1 ELSE 2 * Pow2(n - 1)

RECURSIVE F32Exp(_, _)
F32Exp(x, e) == IF x \div Pow2(e) < Pow2(24) THEN e ELSE F32Exp(x, e + 1)

\* nearest value with a 24-bit significand, ties to even (x >= 0)
F32Abs(x) ==
    LET e == F32Exp(x, 0)
        q == x \div Pow2(e)
        r == x % Pow2(e)
        up == 2 * r > Pow2(e) \/ (2 * r = Pow2(e) /\ q % 2 = 1)
    IN  (IF up THEN q + 1 ELSE q) * Pow2(e)

\* features.astype(np.float32)
F32(x) == IF x >= 0 THEN F32Abs(x) ELSE 0 - F32Abs(0 - x)

\* dtype of a column read by pd.read_csv: object when a cell is not a number
ColumnIsObject(track, col) ==
    \E i \in DOMAIN track.rows : track.rows[i][col].k \in {"txt", "bad"}

\* pd.to_datetime(df['date']) raises on a string that is no timestamp
DateFails(track) ==
    /\ "date" \in track.columns
    /\ \E i \in DOMAIN track.rows : track.rows[i]["date"].k = "bad"

\* df[col].str.replace(',', '').astype(float) raises on non-numeric text;
\* pd.to_numeric(errors='coerce') of a numeric column never does
CoerceFails(track, col) ==
    /\ col \in track.columns
    /\ ColumnIsObject(track, col)
    /\ \E i \in DOMAIN track.rows : track.rows[i][col].k = "bad"

\* df[['date'] + numeric_cols] raises KeyError on an absent column
SelectFails(track) ==
    \E j \in DOMAIN FeatureCols : FeatureCols[j] \notin track.columns

ConversionFails(track) ==
    \/ DateFails(track)
    \/ \E j \in DOMAIN NumericCols : CoerceFails(track, NumericCols[j])
    \/ SelectFails(track)

\* df.fillna(0, inplace=True)
FillNa(cell) == IF cell.k = "nan" THEN 0 ELSE cell.v

Features(track) ==
    [i \in DOMAIN track.rows |->
        [j \in DOMAIN FeatureCols |-> F32(FillNa(track.rows[i][FeatureCols[j]]))]]

\* a conversion that cuts the matrix down to its first row but reports the
\* row count of the CSV
NormalizeOneRow(track) ==
    IF ConversionFails(track) THEN None
    ELSE Artifact(SubSeq(Features(track), 1, 1), Len(track.rows))

\* the (tensor, len(tensor)) of a CSV file, or None when a step raises
Normalize(track) ==
    IF ConversionFails(track)
    THEN None
    ELSE Artifact(Features(track), Len(Features(track)))

----------------------------------------------------------------------------
(* pickle.dump / pickle.load of a (tensor, length) pair.  The stream is the *)
(* tensor (its shape, then its rows) followed by the integer.               *)

ShapeUnit(n) == [t |-> "shape", n |-> n, row |-> <<>>]
RowUnit(r) == [t |-> "row", n |-> 0, row |-> r]
IntUnit(n) == [t |-> "int", n |-> n, row |-> <<>>]
ZeroUnit == [t |-> "zero", n |-> 0, row |-> <<>>]

Dumps(a) ==
    <<ShapeUnit(Len(a.tensor))>>
        \o [i \in 1..Len(a.tensor) |-> RowUnit(a.tensor[i])]
        \o <<IntUnit(a.length)>>

\* the stream parses: a shape n, n rows, an integer; what follows is not read
Loadable(data) ==
    /\ Len(data) >= 1
    /\ data[1].t = "shape"
    /\ Len(data) >= data[1].n + 2
    /\ \A i \in 2..(data[1].n + 1) : data[i].t = "row"
    /\ data[data[1].n + 2].t = "int"

\* pickle.load raises (EOFError, UnpicklingError) on any other stream: None
\* stands for the raise, which line 76 turns into the return value None
Loads(data) ==
    IF Loadable(data)
    THEN Artifact([i \in 1..data[1].n |-> data[i + 1].row], data[data[1].n + 2].n)
    ELSE None

Min(a, b) == IF a < b THEN a ELSE b
Max(a, b) == IF a > b THEN a ELSE b

\* one write() of a file handle at offset p; a gap past the end reads as zeros
WriteAt(data, p, chunk) ==
    [i \in 1..Max(Len(data), p + Len(chunk)) |->
        IF i > p /\ i <= p + Len(chunk) THEN chunk[i - p]
        ELSE IF i <= Len(data) THEN data[i]
        ELSE ZeroUnit]

----------------------------------------------------------------------------
(* State machine of the cache *)

Init ==
    /\ raw \in [Indices -> RawTracks]
    /\ force_reload \in BOOLEAN
    /\ store = [k \in CacheNames |-> NoFile]
    /\ pc = [w \in Workers |-> "idle"]
    /\ cur = [w \in Workers |-> 1]
    /\ art = [w \in Workers |-> None]
    /\ pos = [w \in Workers |-> 0]
    /\ result = [w \in Workers |-> None]
    /\ converted = [w \in Workers |-> FALSE]
    /\ log = <<>>
    /\ calls = 0
    /\ aborted = FALSE
    /\ items = <<>>
    /\ cfg = [max_batch_size |-> 1, max_seq_len |-> 1, bin_size |-> 1]
    /\ carved = <<>>
    /\ out = <<>>
    /\ bstate = "ready"
    /\ plain = [padded |-> <<>>, mask |-> <<>>]
    /\ pstate = "ready"
    /\ LoaderIdle
    /\ UiIdle

\* __getitem__(idx), line 84: a worker starts _load_or_convert(file_paths[idx])
GetItem(w, idx) ==
    /\ pc[w] = "idle"
    /\ ~aborted
    /\ calls < MaxCalls
    /\ calls' = calls + 1
    /\ cur' = [cur EXCEPT ![w] = idx]
    /\ pc' = [pc EXCEPT ![w] = "check"]
    /\ UNCHANGED <<uiVars, batchVars, loaderVars, raw, force_reload, store, art, pos,
                   result, converted, log, aborted>>

\* the test of line 35 with its "not" lost
CacheHitNegated(w) == force_reload /\ store[cache_map[cur[w]]].exists

\* the test of line 35 without force_reload
CacheHitIgnoresForce(w) == store[cache_map[cur[w]]].exists

\* line 35: not self.force_reload and os.path.exists(cache_path)
CacheHit(w) == ~force_reload /\ store[cache_map[cur[w]]].exists

\* a get that opens the cache file for writing before it converts the CSV
CheckCacheOpensFirst(w) ==
    /\ pc[w] = "check"
    /\ IF CacheHit(w)
       THEN /\ pc' = [pc EXCEPT ![w] = "load"]
            /\ UNCHANGED <<art, result, converted, store>>
       ELSE /\ converted' = [converted EXCEPT ![w] = TRUE]
            /\ LET a == Normalize(raw[cur[w]])
               IN  IF a = None
                   THEN /\ result' = [result EXCEPT ![w] = None]
                        /\ pc' = [pc EXCEPT ![w] = "ret"]
                        /\ art' = art
                        /\ store' = [store EXCEPT ![cache_map[cur[w]]] = File(<<>>)]
                   ELSE /\ art' = [art EXCEPT ![w] = a]
                        /\ pc' = [pc EXCEPT ![w] = "open"]
                        /\ result' = result
                        /\ store' = store
    /\ UNCHANGED <<uiVars, batchVars, loaderVars, raw, force_reload, cur, pos, log,
                   calls, aborted>>

\* lines 34-35, and on a miss lines 40-69: read the CSV and build the tensor
\* (work on the worker's own data); any raise there returns None (line 78)
CheckCache(w) ==
    /\ pc[w] = "check"
    /\ IF CacheHit(w)
       THEN /\ pc' = [pc EXCEPT ![w] = "load"]
            /\ UNCHANGED <<art, result, converted>>
       ELSE /\ converted' = [converted EXCEPT ![w] = TRUE]
            /\ LET a == Normalize(raw[cur[w]])
               IN  IF a = None
                   THEN /\ result' = [result EXCEPT ![w] = None]
                        /\ pc' = [pc EXCEPT ![w] = "ret"]
                        /\ art' = art
                   ELSE /\ art' = [art EXCEPT ![w] = a]
                        /\ pc' = [pc EXCEPT ![w] = "open"]
                        /\ result' = result
    /\ UNCHANGED <<uiVars, batchVars, loaderVars, raw, force_reload, store, cur, pos,
                   log, calls, aborted>>

\* lines 36-37: open(cache_path, 'rb'); pickle.load(f)
LoadCache(w) ==
    /\ pc[w] = "load"
    /\ result' = [result EXCEPT ![w] = Loads(store[cache_map[cur[w]]].data)]
    /\ pc' = [pc EXCEPT ![w] = "ret"]
    /\ UNCHANGED <<uiVars, batchVars, loaderVars, raw, force_reload, store, cur, art,
                   pos, converted, log, calls,
                   aborted>>

\* line 72: open(cache_path, 'wb') creates or truncates the file; when the
\* file cannot be opened for writing it raises, and line 76 returns None
OpenCache(w) ==
    /\ pc[w] = "open"
    /\ IF writable
       THEN /\ store' = [store EXCEPT ![cache_map[cur[w]]] = File(<<>>)]
            /\ pos' = [pos EXCEPT ![w] = 0]
            /\ pc' = [pc EXCEPT ![w] = "dump"]
            /\ result' = result
       ELSE /\ result' = [result EXCEPT ![w] = None]
            /\ pc' = [pc EXCEPT ![w] = "ret"]
            /\ UNCHANGED <<store, pos>>
    /\ UNCHANGED <<uiVars, batchVars, loaderVars, raw, force_reload, cur, art,
                   converted, log,
                   calls, aborted>>

\* line 73: pickle.dump reaches the file in writes of at most WriteChunk units;
\* after the last one the file is closed and line 75 returns the pair
DumpChunk(w) ==
    /\ pc[w] = "dump"
    /\ LET buf == Dumps(art[w])
           upto == Min(pos[w] + WriteChunk, Len(buf))
           k == cache_map[cur[w]]
       IN  /\ store' = [store EXCEPT
                    ![k] = File(WriteAt(store[k].data, pos[w],
                                        SubSeq(buf, pos[w] + 1, upto)))]
           /\ pos' = [pos EXCEPT ![w] = upto]
           /\ IF upto = Len(buf)
              THEN /\ result' = [result EXCEPT ![w] = art[w]]
                   /\ pc' = [pc EXCEPT ![w] = "ret"]
              ELSE /\ result' = result
                   /\ pc' = pc
    /\ UNCHANGED <<uiVars, batchVars, loaderVars, raw, force_reload, cur, art,
                   converted, log, calls, aborted>>

\* line 85: item[0].shape raises TypeError when item is None
GetItemRaises(item) == item = None

\* lines 84-87: __getitem__ gets the item back, prints its shape, returns it
GetItemReturn(w) ==
    /\ pc[w] = "ret"
    /\ log' = Append(log, [idx |-> cur[w], result |-> result[w],
                           converted |-> converted[w],
                           raised |-> GetItemRaises(result[w])])
    /\ aborted' = (aborted \/ GetItemRaises(result[w]))
    /\ pc' = [pc EXCEPT ![w] = "idle"]
    /\ cur' = [cur EXCEPT ![w] = 1]
    /\ art' = [art EXCEPT ![w] = None]
    /\ pos' = [pos EXCEPT ![w] = 0]
    /\ result' = [result EXCEPT ![w] = None]
    /\ converted' = [converted EXCEPT ![w] = FALSE]
    /\ UNCHANGED <<uiVars, batchVars, loaderVars, raw, force_reload, store, calls>>

\* the script is run again on the same cache_dir after a run that raised
Rerun ==
    /\ aborted
    /\ \A w \in Workers : pc[w] = "idle"
    /\ aborted' = FALSE
    /\ UNCHANGED <<uiVars, batchVars, loaderVars, raw, force_reload, store, pc, cur,
                   art, pos, result, converted,
                   log, calls>>

Next ==
    \/ \E w \in Workers, idx \in Indices : GetItem(w, idx)
    \/ \E w \in Workers : CheckCache(w)
    \/ \E w \in Workers : LoadCache(w)
    \/ \E w \in Workers : OpenCache(w)
    \/ \E w \in Workers : DumpChunk(w)
    \/ \E w \in Workers : GetItemReturn(w)
    \/ Rerun

Spec == Init /\ [][Next]_vars

\* one worker: every call runs to its return before the next one starts
SeqNext ==
    \/ \E idx \in Indices : GetItem(1, idx)
    \/ CheckCache(1)
    \/ LoadCache(1)
    \/ OpenCache(1)
    \/ DumpChunk(1)
    \/ GetItemReturn(1)
    \/ Rerun

SeqSpec == Init /\ [][SeqNext]_vars

\* what an interrupted pickle.dump (line 73) of a track of cache file k leaves
\* in the file: a proper prefix of the stream
Interrupted(k) ==
    UNION {{File(SubSeq(Dumps(Normalize(raw[i])), 1, n)) :
                n \in 0..(Len(Dumps(Normalize(raw[i]))) - 1)} :
            i \in {j \in Indices : cache_map[j] = k /\ ~ConversionFails(raw[j])}}

\* the dataset constructed with force_reload=False over a cache_dir in which
\* an earlier, interrupted run has left files
CorruptInit ==
    /\ raw \in [Indices -> RawTracks]
    /\ force_reload = FALSE
    /\ store \in [CacheNames -> UNION {{NoFile} \cup Interrupted(k) : k \in CacheNames}]
    /\ \A k \in CacheNames : store[k] \in {NoFile} \cup Interrupted(k)
    /\ pc = [w \in Workers |-> "idle"]
    /\ cur = [w \in Workers |-> 1]
    /\ art = [w \in Workers |-> None]
    /\ pos = [w \in Workers |-> 0]
    /\ result = [w \in Workers |-> None]
    /\ converted = [w \in Workers |-> FALSE]
    /\ log = <<>>
    /\ calls = 0
    /\ aborted = FALSE
    /\ items = <<>>
    /\ cfg = [max_batch_size |-> 1, max_seq_len |-> 1, bin_size |-> 1]
    /\ carved = <<>>
    /\ out = <<>>
    /\ bstate = "ready"
    /\ plain = [padded |-> <<>>, mask |-> <<>>]
    /\ pstate = "ready"
    /\ LoaderIdle
    /\ UiIdle

CorruptSpec == CorruptInit /\ [][SeqNext]_vars

\* the dataset constructed over a cache_dir whose files cannot be opened for
\* writing
UnwritableInit ==
    /\ raw \in [Indices -> RawTracks]
    /\ force_reload \in BOOLEAN
    /\ store = [k \in CacheNames |-> NoFile]
    /\ pc = [w \in Workers |-> "idle"]
    /\ cur = [w \in Workers |-> 1]
    /\ art = [w \in Workers |-> None]
    /\ pos = [w \in Workers |-> 0]
    /\ result = [w \in Workers |-> None]
    /\ converted = [w \in Workers |-> FALSE]
    /\ log = <<>>
    /\ calls = 0
    /\ aborted = FALSE
    /\ items = <<>>
    /\ cfg = [max_batch_size |-> 1, max_seq_len |-> 1, bin_size |-> 1]
    /\ carved = <<>>
    /\ out = <<>>
    /\ bstate = "ready"
    /\ plain = [padded |-> <<>>, mask |-> <<>>]
    /\ pstate = "ready"
    /\ listing = {file_paths[i] : i \in Indices}
    /\ catalogs = <<file_paths>>
    /\ writable = FALSE
    /\ loader = "unbuilt"
    /\ handed = <<>>
    /\ stopped = FALSE
    /\ UiIdle

\* no file comes to exist there, so no get loads one or dumps into one
UnwritableNext ==
    \/ \E idx \in Indices : GetItem(1, idx)
    \/ CheckCache(1)
    \/ OpenCache(1)
    \/ GetItemReturn(1)
    \/ Rerun

UnwritableSpec == UnwritableInit /\ [][UnwritableNext]_vars

\* what a cell of a numeric column of the CSV can hold: a number, a number
\* written with a thousands comma, text that is no number, nothing
NumericCells == {Num(31), Txt(1234), Bad, NaN}

\* one-row tracks with a well-formed date and any cells in lat and sog
CoercionTracks ==
    {[columns |-> AllCols,
      rows |-> << Row(Ts(1700000001), lat, Num(121), sog, Num(90)) >>] :
        lat \in NumericCells, sog \in NumericCells}

\* the dataset over a data_dir whose CSV files hold such a track
CoercionInit ==
    /\ \E track \in CoercionTracks : raw = [i \in Indices |-> track]
    /\ force_reload \in BOOLEAN
    /\ store = [k \in CacheNames |-> NoFile]
    /\ pc = [w \in Workers |-> "idle"]
    /\ cur = [w \in Workers |-> 1]
    /\ art = [w \in Workers |-> None]
    /\ pos = [w \in Workers |-> 0]
    /\ result = [w \in Workers |-> None]
    /\ converted = [w \in Workers |-> FALSE]
    /\ log = <<>>
    /\ calls = 0
    /\ aborted = FALSE
    /\ items = <<>>
    /\ cfg = [max_batch_size |-> 1, max_seq_len |-> 1, bin_size |-> 1]
    /\ carved = <<>>
    /\ out = <<>>
    /\ bstate = "ready"
    /\ plain = [padded |-> <<>>, mask |-> <<>>]
    /\ pstate = "ready"
    /\ LoaderIdle
    /\ UiIdle

CoercionSpec == CoercionInit /\ [][SeqNext]_vars

\* the script has no means to end a run early other than being interrupted or
\* killed (lines 175-196 install no handler and pass no stop flag): the
\* worker is cut off wherever it stands, "except Exception" (line 76) does not
\* catch KeyboardInterrupt, a file being written stays as far as it was
\* written, and nothing is returned to the training loop
Terminate ==
    /\ ~stopped
    /\ ~aborted
    /\ stopped' = TRUE
    /\ aborted' = TRUE
    /\ pc' = [w \in Workers |-> "idle"]
    /\ cur' = [w \in Workers |-> 1]
    /\ art' = [w \in Workers |-> None]
    /\ pos' = [w \in Workers |-> 0]
    /\ result' = [w \in Workers |-> None]
    /\ converted' = [w \in Workers |-> FALSE]
    /\ UNCHANGED <<uiVars, batchVars, listing, catalogs, writable, loader, handed, raw,
                   force_reload, store, log, calls>>

TerminateNext == SeqNext \/ Terminate

TerminateSpec == Init /\ [][TerminateNext]_vars

----------------------------------------------------------------------------
(* DynamicBatchCollator *)

FeatureCount == Len(FeatureCols)

ZeroRow == [j \in 1..FeatureCount |-> 0]

\* the tensor of the id-th input item: n rows, each one unlike any other row
MakeTensor(id, n) ==
    [t \in 1..n |-> [j \in 1..FeatureCount |-> IF j = 1 THEN 10 * id + t ELSE 0]]

\* what _load_or_convert hands over: a (tensor, len(tensor)) pair or None
ItemChoices == {-1} \cup (0..MaxLen)

MakeItems(f) ==
    [i \in DOMAIN f |->
        IF f[i] = -1 THEN None ELSE Artifact(MakeTensor(i, f[i]), f[i])]

InputLists == UNION {{MakeItems(f) : f \in [1..n -> ItemChoices]} : n \in 0..MaxItems}

Configs ==
    [max_batch_size : 2..MaxBatchSize, max_seq_len : 1..MaxSeqLen,
     bin_size : 1..MaxBinSize]

\* an element of the collator's argument that is not a (tensor, length) pair
Elem(x) == [elem |-> x]

\* isinstance(item, tuple) and len(item) == 2
IsPair(item) == DOMAIN item = {"tensor", "length"}

\* line 109: item is None or not isinstance(item, tuple) or len(item) != 2
IsInvalid(item) == item = None \/ ~IsPair(item)

\* a truncation that keeps the trailing rows, tensor[-max_seq_len:]
TruncateTail(item, c) ==
    IF item.length > c.max_seq_len
    THEN Artifact(SubSeq(item.tensor, Len(item.tensor) - c.max_seq_len + 1,
                         Len(item.tensor)),
                  c.max_seq_len)
    ELSE item

\* lines 117-119: tensor[:max_seq_len], length = max_seq_len
Truncate(item, c) ==
    IF item.length > c.max_seq_len
    THEN Artifact(SubSeq(item.tensor, 1, Min(c.max_seq_len, Len(item.tensor))),
                  c.max_seq_len)
    ELSE item

\* Python's a // b for b /= 0: the quotient rounded towards minus infinity
FloorDiv(a, b) ==
    IF b > 0 THEN a \div b ELSE 0 - ((a + (0 - b) - 1) \div (0 - b))

\* line 121: bin_key = length // self.bin_size
BinKey(length, c) == FloorDiv(length, c.bin_size)

\* a bucketing that keeps one list for all keys
AddToOneBin(bins, key, entry) ==
    IF bins = <<>>
    THEN <<[key |-> key, group |-> <<entry>>]>>
    ELSE <<[key |-> bins[1].key, group |-> Append(bins[1].group, entry)]>>

\* lines 122-124; bins is a dict, kept here in the insertion order of its keys
AddToBin(bins, key, entry) ==
    IF \E i \in DOMAIN bins : bins[i].key = key
    THEN [i \in DOMAIN bins |->
            IF bins[i].key = key
            THEN [key |-> key, group |-> Append(bins[i].group, entry)]
            ELSE bins[i]]
    ELSE Append(bins, [key |-> key, group |-> <<entry>>])

Raised == [raised |-> TRUE, bins |-> <<>>]

Grouped(bins) == [raised |-> FALSE, bins |-> bins]

\* lines 115-124: "for tensor, length in items" runs over the whole input and
\* raises when it unpacks an element that is not a pair (TypeError for None),
\* ZeroDivisionError at line 121 when bin_size is 0
RECURSIVE InnerLoop(_, _, _, _)
InnerLoop(bins, its, j, c) ==
    IF j > Len(its) THEN Grouped(bins)
    ELSE IF ~IsPair(its[j]) THEN Raised
    ELSE IF c.bin_size = 0 THEN Raised
    ELSE LET e == Truncate(its[j], c)
         IN  InnerLoop(AddToBin(bins, BinKey(e.length, c), e), its, j + 1, c)

\* a loop that returns after the first item
OuterLoopFirstOnly(bins, its, i, c) ==
    IF its = <<>> \/ IsInvalid(its[1]) THEN Grouped(bins)
    ELSE LET e == Truncate(its[1], c)
         IN  Grouped(AddToBin(bins, BinKey(e.length, c), e))

\* lines 107-126: "for item in items"
RECURSIVE OuterLoop(_, _, _, _)
OuterLoop(bins, its, i, c) ==
    IF i > Len(its) THEN Grouped(bins)
    ELSE IF IsInvalid(its[i]) THEN OuterLoop(bins, its, i + 1, c)
    ELSE LET r == InnerLoop(bins, its, 1, c)
         IN  IF r.raised THEN Raised ELSE OuterLoop(r.bins, its, i + 1, c)

\* _group_by_length, lines 102-129
GroupByLength(its, c) == OuterLoop(<<>>, its, 1, c)

\* list.sort(key=lambda x: x[1], reverse=True) is stable: equal lengths keep
\* their order
RECURSIVE InsertDesc(_, _)
InsertDesc(sorted, e) ==
    IF sorted = <<>> THEN <<e>>
    ELSE IF Head(sorted).length >= e.length
         THEN <<Head(sorted)>> \o InsertDesc(Tail(sorted), e)
         ELSE <<e>> \o sorted

\* a group left in the order of its arrival
KeepOrder(group) == group

RECURSIVE SortDesc(_)
SortDesc(group) ==
    IF group = <<>> THEN <<>>
    ELSE InsertDesc(SortDesc(SubSeq(group, 1, Len(group) - 1)), group[Len(group)])

RECURSIVE MaxOf(_)
MaxOf(ns) == IF ns = <<>> THEN 0 ELSE Max(Head(ns), MaxOf(Tail(ns)))

\* a padding that takes its width from the last (shortest) tensor of the chunk
PadSequenceShortest(tensors) ==
    LET width == IF tensors = <<>> THEN 0 ELSE Len(tensors[Len(tensors)])
    IN  [j \in DOMAIN tensors |->
            [t \in 1..width |-> IF t <= Len(tensors[j]) THEN tensors[j][t] ELSE ZeroRow]]

\* a padding to one width for all batches, the longest input there can be
PadSequenceGlobal(tensors) ==
    [j \in DOMAIN tensors |->
        [t \in 1..MaxLen |-> IF t <= Len(tensors[j]) THEN tensors[j][t] ELSE ZeroRow]]

\* pad_sequence(tensors, batch_first=True): zero rows up to the longest tensor
PadSequence(tensors) ==
    LET width == MaxOf([j \in DOMAIN tensors |-> Len(tensors[j])])
    IN  [j \in DOMAIN tensors |->
            [t \in 1..width |-> IF t <= Len(tensors[j]) THEN tensors[j][t] ELSE ZeroRow]]

\* a mask that is one position short, mask[j, :length - 1] = 1
MakeMaskShort(padded, lengths) ==
    [j \in DOMAIN padded |->
        [t \in DOMAIN padded[j] |-> IF t < lengths[j] THEN 1 ELSE 0]]

\* lines 150-152: zeros_like(padded[:, :, 0]), then mask[j, :length] = 1
MakeMask(padded, lengths) ==
    [j \in DOMAIN padded |->
        [t \in DOMAIN padded[j] |-> IF t <= lengths[j] THEN 1 ELSE 0]]

\* lines 143-154: one batch from group[i:i+max_batch_size]
MakeBatch(batch_items) ==
    LET tensors == [j \in DOMAIN batch_items |-> batch_items[j].tensor]
        lengths == [j \in DOMAIN batch_items |-> batch_items[j].length]
        padded == PadSequence(tensors)
    IN  [padded |-> padded, mask |-> MakeMask(padded, lengths), lengths |-> lengths]

\* a carving that never splits a group
CarveGroupWhole(group, i, c) ==
    IF group = <<>> THEN <<>> ELSE <<MakeBatch(group)>>

\* line 142: range(0, len(group), max_batch_size)
RECURSIVE CarveGroup(_, _, _)
CarveGroup(group, i, c) ==
    IF i >= Len(group) THEN <<>>
    ELSE <<MakeBatch(SubSeq(group, i + 1, Min(i + c.max_batch_size, Len(group))))>>
            \o CarveGroup(group, i + c.max_batch_size, c)

\* lines 137-154: "for _, group in bins.items()"
RECURSIVE CarveBins(_, _, _)
CarveBins(bins, b, c) ==
    IF b > Len(bins) THEN <<>>
    ELSE CarveGroup(SortDesc(bins[b].group), 0, c) \o CarveBins(bins, b + 1, c)

RemoveAt(s, i) == SubSeq(s, 1, i - 1) \o SubSeq(s, i + 1, Len(s))

\* a draw with replacement in place of a shuffle
Resamples(s) == {f \in [DOMAIN s -> {s[i] : i \in DOMAIN s}] : TRUE}

\* np.random.shuffle(batches): every order of the list
RECURSIVE Shuffles(_)
Shuffles(s) ==
    IF s = <<>> THEN {<<>>}
    ELSE UNION {{<<s[i]>> \o r : r \in Shuffles(RemoveAt(s, i))} :
                    i \in {k \in DOMAIN s : \A m \in 1..(k - 1) : s[m] /= s[k]}}

BatchInit ==
    /\ raw = [i \in Indices |-> TrackGood1]
    /\ force_reload = FALSE
    /\ store = [k \in CacheNames |-> NoFile]
    /\ pc = [w \in Workers |-> "idle"]
    /\ cur = [w \in Workers |-> 1]
    /\ art = [w \in Workers |-> None]
    /\ pos = [w \in Workers |-> 0]
    /\ result = [w \in Workers |-> None]
    /\ converted = [w \in Workers |-> FALSE]
    /\ log = <<>>
    /\ calls = 0
    /\ aborted = FALSE
    /\ items \in InputLists
    /\ cfg \in Configs
    /\ carved = <<>>
    /\ out = <<>>
    /\ bstate = "ready"
    /\ plain = [padded |-> <<>>, mask |-> <<>>]
    /\ pstate = "ready"
    /\ LoaderIdle
    /\ UiIdle

\* __call__, lines 131-158
Collate ==
    /\ bstate = "ready"
    /\ LET g == GroupByLength(items, cfg)
       IN  IF g.raised
           THEN /\ bstate' = "raised"
                /\ carved' = <<>>
                /\ out' = <<>>
           ELSE /\ bstate' = "returned"
                /\ carved' = CarveBins(g.bins, 1, cfg)
                /\ out' \in Shuffles(carved')
    /\ UNCHANGED <<uiVars, cacheVars, loaderVars, items, cfg, plain, pstate>>

\* collate_fn of test_data_set_load2.py: the mask is
\* arange(max_len) < lengths, with lengths = [b.shape[0] for b in batch]
PlainMask(padded, lengths) ==
    [j \in DOMAIN padded |-> [t \in DOMAIN padded[j] |-> (t - 1) < lengths[j]]]

CollateFn(batch) ==
    LET padded == PadSequence(batch)
        lengths == [j \in DOMAIN batch |-> Len(batch[j])]
    IN  [padded |-> padded, mask |-> PlainMask(padded, lengths)]

\* the DataLoader of test_data_set_load2.py hands collate_fn a non-empty list
\* of tensors
CallCollateFn ==
    /\ pstate = "ready"
    /\ items /= <<>>
    /\ \A i \in DOMAIN items : items[i] /= None
    /\ plain' = CollateFn([i \in DOMAIN items |-> items[i].tensor])
    /\ pstate' = "returned"
    /\ UNCHANGED <<uiVars, cacheVars, loaderVars, items, cfg, carved, out, bstate>>

BatchNext == Collate \/ CallCollateFn

BatchSpec == BatchInit /\ [][BatchNext]_vars

\* __init__, lines 92-100: the three arguments are stored as they come
DynamicBatchCollator(max_batch_size, max_seq_len, bin_size) ==
    [max_batch_size |-> max_batch_size, max_seq_len |-> max_seq_len,
     bin_size |-> bin_size]

BadBinSizes == (0 - MaxBinSize)..0

\* the collators a caller can construct with a zero or negative bin_size
BadConfigs ==
    {DynamicBatchCollator(m, s, b) :
        m \in 2..MaxBatchSize, s \in 1..MaxSeqLen, b \in BadBinSizes}

BadConfigInit ==
    /\ raw = [i \in Indices |-> TrackGood1]
    /\ force_reload = FALSE
    /\ store = [k \in CacheNames |-> NoFile]
    /\ pc = [w \in Workers |-> "idle"]
    /\ cur = [w \in Workers |-> 1]
    /\ art = [w \in Workers |-> None]
    /\ pos = [w \in Workers |-> 0]
    /\ result = [w \in Workers |-> None]
    /\ converted = [w \in Workers |-> FALSE]
    /\ log = <<>>
    /\ calls = 0
    /\ aborted = FALSE
    /\ items \in InputLists
    /\ cfg \in BadConfigs
    /\ carved = <<>>
    /\ out = <<>>
    /\ bstate = "ready"
    /\ plain = [padded |-> <<>>, mask |-> <<>>]
    /\ pstate = "ready"
    /\ LoaderIdle
    /\ UiIdle

BadConfigSpec == BadConfigInit /\ [][BatchNext]_vars

\* what the dataset gives for the CSV files of file_paths, in their order:
\* the list the collator is meant for
Converted(tracks) == [i \in DOMAIN tracks |-> Normalize(tracks[i])]

\* the collator applied to the converted tracks of a data_dir
ConvertedInit ==
    /\ raw \in [Indices -> RawTracks]
    /\ force_reload = FALSE
    /\ store = [k \in CacheNames |-> NoFile]
    /\ pc = [w \in Workers |-> "idle"]
    /\ cur = [w \in Workers |-> 1]
    /\ art = [w \in Workers |-> None]
    /\ pos = [w \in Workers |-> 0]
    /\ result = [w \in Workers |-> None]
    /\ converted = [w \in Workers |-> FALSE]
    /\ log = <<>>
    /\ calls = 0
    /\ aborted = FALSE
    /\ items = Converted(raw)
    /\ cfg \in Configs
    /\ carved = <<>>
    /\ out = <<>>
    /\ bstate = "ready"
    /\ plain = [padded |-> <<>>, mask |-> <<>>]
    /\ pstate = "ready"
    /\ LoaderIdle
    /\ UiIdle

ConvertedSpec == ConvertedInit /\ [][BatchNext]_vars

----------------------------------------------------------------------------
(* TrajectoryDataset.__init__: the catalog of a data_dir *)

MaxCatalogs == 2

\* what data_dir may hold: the CSV files of file_paths and one other file
DirEntries == {file_paths[i] : i \in Indices} \cup {<<"notes", "txt">>}

\* line 16: the pattern "*.csv"
Matches(dir) == {p \in dir : p[Len(p)] = "csv"}

\* the sequences that list each element of S once
Orders(S) ==
    {f \in [1..Cardinality(S) -> S] : \A i, j \in DOMAIN f : f[i] = f[j] => i = j}

\* line 16: glob.glob returns the matches in the order the file system
\* enumerates the directory, which is any order; nothing sorts the result
Glob(dir) == Orders(Matches(dir))

\* file_paths lists its paths in ascending order of their names
Rank(path) == CHOOSE i \in Indices : file_paths[i] = path

IsSorted(paths) ==
    \A i, j \in DOMAIN paths : i < j => Rank(paths[i]) < Rank(paths[j])

CatalogInit ==
    /\ raw = [i \in Indices |-> TrackGood1]
    /\ force_reload = FALSE
    /\ store = [k \in CacheNames |-> NoFile]
    /\ pc = [w \in Workers |-> "idle"]
    /\ cur = [w \in Workers |-> 1]
    /\ art = [w \in Workers |-> None]
    /\ pos = [w \in Workers |-> 0]
    /\ result = [w \in Workers |-> None]
    /\ converted = [w \in Workers |-> FALSE]
    /\ log = <<>>
    /\ calls = 0
    /\ aborted = FALSE
    /\ items = <<>>
    /\ cfg = [max_batch_size |-> 1, max_seq_len |-> 1, bin_size |-> 1]
    /\ carved = <<>>
    /\ out = <<>>
    /\ bstate = "ready"
    /\ plain = [padded |-> <<>>, mask |-> <<>>]
    /\ pstate = "ready"
    /\ listing \in SUBSET DirEntries
    /\ catalogs = <<>>
    /\ writable = TRUE
    /\ loader = "unbuilt"
    /\ handed = <<>>
    /\ stopped = FALSE
    /\ UiIdle

\* TrajectoryDataset(data_dir, ...), lines 13-24: file_paths is computed once,
\* by line 16
BuildCatalog ==
    /\ Len(catalogs) < MaxCatalogs
    /\ \E paths \in Glob(listing) : catalogs' = Append(catalogs, paths)
    /\ UNCHANGED <<uiVars, cacheVars, batchVars, listing, writable, loader, handed,
                   stopped>>

CatalogSpec == CatalogInit /\ [][BuildCatalog]_vars

----------------------------------------------------------------------------
(* The script: DataLoader over the dataset, collator as collate_fn *)

\* the dataset of lines 162-166 over a data_dir that holds either the CSV
\* files of file_paths or no CSV file at all
LoaderInit ==
    /\ \/ /\ listing \in {dir \in SUBSET DirEntries : Matches(dir) = {}}
          /\ catalogs = << <<>> >>
          /\ raw = [i \in Indices |-> TrackGood1]
          /\ force_reload = FALSE
       \/ /\ listing = {file_paths[i] : i \in Indices}
          /\ catalogs = <<file_paths>>
          /\ raw \in [Indices -> RawTracks]
          /\ force_reload \in BOOLEAN
    /\ store = [k \in CacheNames |-> NoFile]
    /\ pc = [w \in Workers |-> "idle"]
    /\ cur = [w \in Workers |-> 1]
    /\ art = [w \in Workers |-> None]
    /\ pos = [w \in Workers |-> 0]
    /\ result = [w \in Workers |-> None]
    /\ converted = [w \in Workers |-> FALSE]
    /\ log = <<>>
    /\ calls = 0
    /\ aborted = FALSE
    /\ items = <<>>
    /\ cfg = [max_batch_size |-> 1, max_seq_len |-> 1, bin_size |-> 1]
    /\ carved = <<>>
    /\ out = <<>>
    /\ bstate = "ready"
    /\ plain = [padded |-> <<>>, mask |-> <<>>]
    /\ pstate = "ready"
    /\ writable = TRUE
    /\ loader = "unbuilt"
    /\ handed = <<>>
    /\ stopped = FALSE
    /\ UiIdle

\* lines 176-183: DataLoader(dataset, batch_size=None, shuffle=True, ...).
\* shuffle=True makes it build RandomSampler(dataset), whose constructor
\* raises ValueError when len(dataset) is 0
MakeLoader ==
    /\ loader = "unbuilt"
    /\ IF Len(catalogs[1]) = 0
       THEN /\ loader' = "raised"
            /\ aborted' = TRUE
       ELSE /\ loader' = "ready"
            /\ aborted' = aborted
    /\ UNCHANGED <<uiVars, batchVars, listing, catalogs, writable, handed, stopped, raw,
                   force_reload, store, pc, cur, art, pos, result, converted,
                   log, calls>>

\* the loader asks the dataset for the sample of an index of the catalog
Fetch(idx) ==
    /\ loader = "ready"
    /\ idx \in DOMAIN catalogs[1]
    /\ GetItem(1, idx)

\* what collator(its) gives back: a raise, or the shuffled list of batches
CollatorCall(its, c) ==
    LET g == GroupByLength(its, c)
    IN  IF g.raised
        THEN {[raised |-> TRUE, list |-> <<>>]}
        ELSE {[raised |-> FALSE, list |-> b] :
                b \in Shuffles(CarveBins(g.bins, 1, c))}

\* batch_size=None turns automatic batching off: the loader passes each
\* sample, one (tensor, length) tuple, to collate_fn by itself, and the
\* collator iterates over the two members of the tuple. The loader yields what
\* the collator returns, and line 187 unpacks it into padded, mask, lengths,
\* which raises unless it has three members.
Deliver ==
    /\ loader = "ready"
    /\ ~aborted
    /\ Len(handed) < Len(log)
    /\ LET sample == log[Len(handed) + 1].result
       IN  \E v \in CollatorCall(<<Elem(sample.tensor), Elem(sample.length)>>, cfg) :
            /\ handed' = Append(handed, [list |-> v.list])
            /\ aborted' = (v.raised \/ Len(v.list) /= 3)
    /\ UNCHANGED <<uiVars, batchVars, listing, catalogs, writable, loader, stopped, raw,
                   force_reload, store, pc, cur, art, pos, result, converted,
                   log, calls>>

LoaderNext ==
    \/ MakeLoader
    \/ \E idx \in Indices : Fetch(idx)
    \/ CheckCache(1)
    \/ LoadCache(1)
    \/ OpenCache(1)
    \/ DumpChunk(1)
    \/ GetItemReturn(1)
    \/ Deliver

LoaderSpec == LoaderInit /\ [][LoaderNext]_vars

----------------------------------------------------------------------------
(* ShipTrajectorySystem of win_by_grok.py: browsing the filtered files *)

MaxFiles == 3
MaxProcessors == 2

\* the CSV files of current_folder
FolderFiles == 1..MaxFiles

\* TrajectoryProcessor.run, lines 198-231: the files of os.listdir that pass
\* the area test, in the order os.listdir gave them
FilteredLists == UNION {Orders(S) : S \in SUBSET FolderFiles}

\* the window as constructed; the loading pipeline plays no part
UiInit ==
    /\ Init
    /\ raw = [i \in Indices |-> TrackGood1]
    /\ force_reload = FALSE

\* list[index] of Python raises IndexError outside -len .. len - 1
IndexFails(list, index) == index >= Len(list) \/ index < 0 - Len(list)

\* list[index] for an index that does not raise
Item(list, index) == IF index >= 0 THEN list[index + 1] ELSE list[Len(list) + index + 1]

\* show_current_trajectory, lines 740-759, for the list and index given:
\* what is on the map afterwards, and whether line 745 raised
Show(list, index) ==
    IF list = <<>> THEN [shown |-> shown, raised |-> FALSE]
    ELSE IF IndexFails(list, index) THEN [shown |-> shown, raised |-> TRUE]
    ELSE [shown |-> Item(list, index), raised |-> FALSE]

\* filter_trajectories, lines 683-705: starts a TrajectoryProcessor thread; an
\* earlier one may still be running
FilterTrajectories ==
    /\ processors < MaxProcessors
    /\ processors' = processors + 1
    /\ UNCHANGED <<cacheVars, batchVars, loaderVars, current_trajectory_files,
                   current_file_index, shown, saved, index_error>>

\* on_filtering_finished, lines 718-738: the slot runs in the GUI thread when
\* the finished_processing signal of a processor is delivered
OnFilteringFinished(filtered_files) ==
    /\ processors > 0
    /\ processors' = processors - 1
    /\ current_trajectory_files' = filtered_files
    /\ current_file_index' = 0
    /\ LET s == Show(filtered_files, 0)
       IN  /\ shown' = s.shown
           /\ index_error' = (index_error \/ s.raised)
    /\ UNCHANGED <<cacheVars, batchVars, loaderVars, saved>>

\* an advance that also leaves the last file
CanAdvancePastEnd == current_file_index < Len(current_trajectory_files)

\* line 763
CanAdvance == current_file_index < Len(current_trajectory_files) - 1

\* next_trajectory, lines 761-765
NextTrajectory ==
    /\ CanAdvance
    /\ current_file_index' = current_file_index + 1
    /\ LET s == Show(current_trajectory_files, current_file_index')
       IN  /\ shown' = s.shown
           /\ index_error' = (index_error \/ s.raised)
    /\ UNCHANGED <<cacheVars, batchVars, loaderVars, current_trajectory_files,
                   processors, saved>>

\* prev_trajectory, lines 767-771
PrevTrajectory ==
    /\ current_file_index > 0
    /\ current_file_index' = current_file_index - 1
    /\ LET s == Show(current_trajectory_files, current_file_index')
       IN  /\ shown' = s.shown
           /\ index_error' = (index_error \/ s.raised)
    /\ UNCHANGED <<cacheVars, batchVars, loaderVars, current_trajectory_files,
                   processors, saved>>

\* save_current_trajectory, lines 773-792, with a save folder chosen: line 782
\* indexes the list and line 786 copies that file
SaveCurrentTrajectory ==
    /\ current_trajectory_files /= <<>>
    /\ IF IndexFails(current_trajectory_files, current_file_index)
       THEN /\ index_error' = TRUE
            /\ saved' = saved
       ELSE /\ index_error' = index_error
            /\ saved' = saved \cup
                    {Item(current_trajectory_files, current_file_index)}
    /\ UNCHANGED <<cacheVars, batchVars, loaderVars, current_trajectory_files,
                   current_file_index, processors, shown>>

UiNext ==
    \/ FilterTrajectories
    \/ \E filtered_files \in FilteredLists : OnFilteringFinished(filtered_files)
    \/ NextTrajectory
    \/ PrevTrajectory
    \/ SaveCurrentTrajectory

UiSpec == UiInit /\ [][UiNext]_vars

----------------------------------------------------------------------------
(* Properties of the cache *)

\* calls i and j of the log are consecutive gets of one identity
ConsecutiveGets(i, j) ==
    /\ i < j
    /\ log[i].idx = log[j].idx
    /\ \A k \in (i + 1)..(j - 1) : log[k].idx /= log[i].idx

\* C1 as stated: with force_reload false, of two consecutive gets of any
\* identity the second returns what the first returned and converts nothing.
C1_IdempotentEveryIdentity ==
    ~force_reload =>
        \A i, j \in DOMAIN log :
            ConsecutiveGets(i, j) =>
                log[j].result = log[i].result /\ ~log[j].converted

\* C1, amended: with force_reload false, once a get of an identity has
\* returned an artifact, the next get of that identity returns the identical
\* artifact and performs no conversion.
C1_IdempotentAfterSuccess ==
    ~force_reload =>
        \A i, j \in DOMAIN log :
            (ConsecutiveGets(i, j) /\ log[i].result /= None) =>
                log[j].result = log[i].result /\ ~log[j].converted

C1_Witness ==
    /\ ~force_reload
    /\ \E i, j \in DOMAIN log :
        /\ ConsecutiveGets(i, j)
        /\ log[i].converted
        /\ log[i].result /= None
        /\ log[j].result = log[i].result

\* the calls of the log that converted identity idx and persisted the result
EffectiveConversions(idx) ==
    {i \in DOMAIN log :
        log[i].idx = idx /\ log[i].converted /\ log[i].result /= None}

\* C2: with force_reload false, at most one conversion of an identity takes
\* effect, however the workers' gets of that identity interleave.
C2_AtMostOneConversion ==
    ~force_reload =>
        \A idx \in Indices : Cardinality(EffectiveConversions(idx)) <= 1

\* the artifacts whose writers share the cache file k
ArtifactsOf(k) ==
    {Normalize(raw[idx]) : idx \in {i \in Indices : cache_map[i] = k}} \ {None}

\* C3: persistence is atomic: a worker that finds an entry existing reads a
\* complete artifact from it, and once all workers are done every entry holds
\* the complete artifact of one of its writers.
C3_AtomicPersistence ==
    /\ \A w \in Workers :
        pc[w] = "load" => Loads(store[cache_map[cur[w]]].data) \in ArtifactsOf(cache_map[cur[w]])
    /\ (\A w \in Workers : pc[w] = "idle") =>
        \A k \in CacheNames :
            store[k].exists => Loads(store[k].data) \in ArtifactsOf(k)

\* C9: a get that fails stays confined to its identity: __getitem__ does not
\* raise and the traversal goes on with the other tracks.
C9_FailureIsolated ==
    /\ ~aborted
    /\ \A i \in DOMAIN log : log[i].result = None => ~log[i].raised

----------------------------------------------------------------------------
(* Properties of the batcher *)

ValidIndices == {i \in DOMAIN items : items[i] /= None}

RECURSIVE TotalItems(_)
TotalItems(batches) ==
    IF batches = <<>> THEN 0
    ELSE Len(Head(batches).lengths) + TotalItems(Tail(batches))

Width(b) == IF b.padded = <<>> THEN 0 ELSE Len(b.padded[1])

\* the input item a non-empty row sequence of a batch was made from
Owner(rows) == rows[1][1] \div 10

\* the length an input item has once it is truncated
CappedLength(i) == Min(items[i].length, cfg.max_seq_len)

\* row j of batch b holds input item i: its data rows are the item's first rows
Holds(b, j, i) ==
    /\ b.lengths[j] = CappedLength(i)
    /\ Len(b.padded[j]) >= CappedLength(i)
    /\ SubSeq(b.padded[j], 1, CappedLength(i)) = SubSeq(items[i].tensor, 1, CappedLength(i))

Placed(i) ==
    \E n \in DOMAIN out : \E j \in DOMAIN out[n].padded : Holds(out[n], j, i)

\* C4: the artifacts of all emitted batches together number the valid input
\* artifacts: batching drops none and repeats none.
C4_Conservation ==
    bstate = "returned" => TotalItems(out) = Cardinality(ValidIndices)

\* C5: in every emitted batch mask[i, t] = 1 exactly when t < lengths[i]
\* (t counted from 0), lengths[i] being the truncated length of row i, so the
\* mask marks the data rows and nothing else; collate_fn's mask likewise.
C5_MaskCorrect ==
    /\ bstate = "returned" =>
        \A n \in DOMAIN out :
            /\ DOMAIN out[n].mask = DOMAIN out[n].padded
            /\ \A i \in DOMAIN out[n].mask :
                /\ DOMAIN out[n].mask[i] = DOMAIN out[n].padded[i]
                /\ \A t \in DOMAIN out[n].mask[i] :
                    /\ out[n].mask[i][t] \in {0, 1}
                    /\ (out[n].mask[i][t] = 1) <=> (t - 1 < out[n].lengths[i])
                    /\ (out[n].mask[i][t] = 1) <=> (out[n].padded[i][t] /= ZeroRow)
    /\ pstate = "returned" =>
        /\ DOMAIN plain.mask = DOMAIN items
        /\ \A i \in DOMAIN plain.mask :
            /\ DOMAIN plain.mask[i] = DOMAIN plain.padded[i]
            /\ \A t \in DOMAIN plain.mask[i] :
                plain.mask[i][t] <=> (t - 1 < Len(items[i].tensor))

C5_Witness ==
    /\ bstate = "returned"
    /\ \E n \in DOMAIN out : \E i \in DOMAIN out[n].mask :
        /\ out[n].lengths[i] >= 1
        /\ items[Owner(out[n].padded[i])].length > cfg.max_seq_len
        /\ \E j \in DOMAIN out[n].mask : \E t \in DOMAIN out[n].mask[j] :
            out[n].mask[j][t] = 0

\* C6: an input artifact longer than max_seq_len is held by batches of time
\* dimension at most max_seq_len, and what is kept of it are the first
\* max_seq_len rows of its matrix.
C6_TruncationLaw ==
    bstate = "returned" =>
        /\ \A n \in DOMAIN out : Width(out[n]) <= cfg.max_seq_len
        /\ \A n \in DOMAIN out : \A j \in DOMAIN out[n].padded :
            (out[n].lengths[j] >= 1
                /\ items[Owner(out[n].padded[j])].length > cfg.max_seq_len) =>
                /\ out[n].lengths[j] = cfg.max_seq_len
                /\ SubSeq(out[n].padded[j], 1, cfg.max_seq_len)
                     = SubSeq(items[Owner(out[n].padded[j])].tensor, 1, cfg.max_seq_len)
        /\ \A i \in ValidIndices : items[i].length > cfg.max_seq_len => Placed(i)

C6_Witness ==
    /\ bstate = "returned"
    /\ cfg.max_seq_len >= 2
    /\ \E i \in ValidIndices : items[i].length > cfg.max_seq_len /\ Placed(i)

\* C7: every emitted batch has at least 1 and at most max_batch_size artifacts.
C7_BatchSizeBound ==
    bstate = "returned" =>
        \A n \in DOMAIN out :
            /\ Len(out[n].lengths) >= 1
            /\ Len(out[n].lengths) <= cfg.max_batch_size
            /\ Len(out[n].padded) = Len(out[n].lengths)

C7_Witness ==
    /\ bstate = "returned"
    /\ \E n, m \in DOMAIN out :
        /\ n /= m
        /\ Len(out[n].lengths) = cfg.max_batch_size
        /\ BinKey(out[n].lengths[1], cfg) = BinKey(out[m].lengths[1], cfg)

\* C8: an artifact of truncated length L sits in a batch padded to at least
\* L, with its L rows intact: padding cuts nothing off.
C8_BucketingLaw ==
    bstate = "returned" =>
        /\ \A n \in DOMAIN out : \A j \in DOMAIN out[n].padded :
            /\ Len(out[n].padded[j]) = Width(out[n])
            /\ out[n].lengths[j] <= Width(out[n])
            /\ out[n].lengths[j] >= 1 => Holds(out[n], j, Owner(out[n].padded[j]))
        /\ \A i \in ValidIndices : Placed(i)

C8_Witness ==
    /\ bstate = "returned"
    /\ \E n \in DOMAIN out : \E j \in DOMAIN out[n].padded :
        /\ out[n].lengths[j] >= 1
        /\ out[n].lengths[j] < Width(out[n])

\* C10: an input item that is no (matrix, length) pair is skipped and the
\* batcher still returns the batches of all the valid items.
C10_SkipsInvalid ==
    (bstate /= "ready" /\ \E i \in DOMAIN items : IsInvalid(items[i])) =>
        /\ bstate = "returned"
        /\ \A i \in ValidIndices : Placed(i)

----------------------------------------------------------------------------
(* Properties of the cache, continued *)

\* a get of an identity of cache file k that converted successfully: one that
\* has returned, or one that is writing or has just written the file
SuccessfulWriter(k) ==
    \/ \E i \in DOMAIN log :
        /\ cache_map[log[i].idx] = k
        /\ log[i].converted
        /\ log[i].result /= None
    \/ \E w \in Workers :
        /\ pc[w] \in {"dump", "ret"}
        /\ cache_map[cur[w]] = k
        /\ converted[w]
        /\ ~ConversionFails(raw[cur[w]])

\* C11: a get whose reading or normalizing of the raw track fails returns no
\* artifact and writes nothing: a cache file exists only where a get converted
\* its track successfully.
C11_FailedGetWritesNothing ==
    /\ \A i \in DOMAIN log :
        (log[i].converted /\ ConversionFails(raw[log[i].idx])) => log[i].result = None
    /\ \A w \in Workers :
        (pc[w] = "ret" /\ converted[w] /\ ConversionFails(raw[cur[w]])) => result[w] = None
    /\ \A k \in CacheNames : store[k].exists => SuccessfulWriter(k)

C11_Witness ==
    /\ \E i \in DOMAIN log : log[i].converted /\ log[i].result = None
    /\ \A k \in CacheNames : ~store[k].exists

\* C12: distinct tracks have distinct cache entries, so whatever a get
\* returns for an identity is the artifact of that identity's own track.
C12_UniqueCacheKeys ==
    \A n \in DOMAIN log :
        log[n].result /= None => log[n].result = Normalize(raw[log[n].idx])

\* cache file k has been written successfully: it holds a whole artifact of
\* one of its identities and no writer has it open
Written(k) ==
    /\ store[k].exists
    /\ Loads(store[k].data) \in ArtifactsOf(k)
    /\ \A w \in Workers : ~(pc[w] = "dump" /\ cache_map[cur[w]] = k)

\* C13: with force_reload false, no step of any get, sequential or concurrent,
\* changes a cache entry once it has been written successfully.
C13_EntryStable ==
    [][~force_reload =>
        \A k \in CacheNames : Written(k) => store'[k] = store[k]]_vars

StepFrom(w, at) == pc[w] = at /\ (pc'[w] /= at \/ pos'[w] /= pos[w])

C17_UnreadableEntryFallsBack ==
    [][\A w \in Workers :
        (pc[w] = "load" /\ ~Loadable(store[cache_map[cur[w]]].data)) =>
            /\ pc'[w] = "ret" =>
                /\ converted'[w]
                /\ result'[w] = Normalize(raw[cur[w]])
            /\ ~aborted'
      ]_vars

\* C18: when the cache store cannot be written, a get whose conversion
\* succeeded still returns the converted artifact and the run does not crash.
C18_UnwritableStillReturns ==
    ~writable =>
        \A n \in DOMAIN log :
            (log[n].converted /\ ~ConversionFails(raw[log[n].idx])) =>
                /\ log[n].result = Normalize(raw[log[n].idx])
                /\ ~log[n].raised

----------------------------------------------------------------------------
(* Properties of the batcher, continued *)

\* C15: a collator with a zero or negative bin_size is rejected at construction,
\* so it never gets to build batches: a call neither raises nor returns.
C15_BadBinSizeRejected ==
    cfg.bin_size <= 0 => bstate \notin {"raised", "returned"}

----------------------------------------------------------------------------
(* Properties of the catalog *)

\* C16: the catalog is sorted, so two catalogs built over the same directory
\* list the identities in the same order.
C16_CatalogSorted ==
    \A n \in DOMAIN catalogs :
        /\ IsSorted(catalogs[n])
        /\ \A m \in DOMAIN catalogs : catalogs[m] = catalogs[n]

----------------------------------------------------------------------------
(* Properties of the script *)

\* C19: a traversal over an empty catalog yields zero batches and zero errors
\* (and the collator turns an empty input into an empty batch list).
C19_EmptyCatalogNoErrors ==
    catalogs[1] = <<>> =>
        /\ handed = <<>>
        /\ loader /= "raised"
        /\ ~aborted

\* a value of the form (padded_tensor, mask, lengths)
IsBatch(v) == DOMAIN v = {"padded", "mask", "lengths"}

\* C20: every value handed to the training loop is a (padded, mask, lengths)
\* batch, and the artifact of every sample the loader has passed on is in a
\* batch handed to the training loop.
C20_ArtifactsReachCaller ==
    \A n \in DOMAIN handed :
        /\ IsBatch(handed[n])
        /\ \E m \in DOMAIN handed :
            /\ IsBatch(handed[m])
            /\ \E j \in DOMAIN handed[m].padded :
                /\ handed[m].lengths[j] = Min(log[n].result.length, cfg.max_seq_len)
                /\ SubSeq(handed[m].padded[j], 1, handed[m].lengths[j])
                     = SubSeq(log[n].result.tensor, 1, handed[m].lengths[j])

\* C22: early termination is cooperative: once it has been requested and the
\* workers have come to rest, no cache file is left torn: every file holds the
\* complete artifact of a conversion that ran to its end.
C22_TerminationLeavesNoTornWrite ==
    (stopped /\ \A w \in Workers : pc[w] = "idle") =>
        \A k \in CacheNames :
            store[k].exists => Loads(store[k].data) \in ArtifactsOf(k)

\* the bucket key a valid input item falls under
KeyOf(i) == BinKey(CappedLength(i), cfg)

BucketKeys == {KeyOf(i) : i \in ValidIndices}

\* n_k: the valid input items of bucket key k
InBucket(k) == {i \in ValidIndices : KeyOf(i) = k}

CeilDiv(a, b) == (a + b - 1) \div b

RECURSIVE SumOfChunks(_)
SumOfChunks(keys) ==
    IF keys = {} THEN 0
    ELSE LET k == CHOOSE x \in keys : TRUE
         IN  CeilDiv(Cardinality(InBucket(k)), cfg.max_batch_size)
                + SumOfChunks(keys \ {k})

\* the emitted batches carved from bucket k
BatchesOf(k) == {n \in DOMAIN out : BinKey(out[n].lengths[1], cfg) = k}

\* C23: the number of emitted batches is the sum over the bucket keys k of
\* ceil(n_k / max_batch_size), and of the batches of one bucket at most one
\* has fewer than max_batch_size items.
C23_BatchCount ==
    bstate = "returned" =>
        /\ Len(out) = SumOfChunks(BucketKeys)
        /\ \A k \in BucketKeys :
            Cardinality({n \in BatchesOf(k) :
                            Len(out[n].lengths) < cfg.max_batch_size}) <= 1

\* C24: no batch is merged across buckets: the lengths of the artifacts of an
\* emitted batch all have the same value of length // bin_size.
C24_OneBucketPerBatch ==
    bstate = "returned" =>
        \A n \in DOMAIN out : \A i, j \in DOMAIN out[n].lengths :
            out[n].lengths[i] \div cfg.bin_size = out[n].lengths[j] \div cfg.bin_size

C24_Witness ==
    /\ bstate = "returned"
    /\ \E n, m \in DOMAIN out :
        /\ Len(out[n].lengths) >= 2
        /\ out[n].lengths[1] \div cfg.bin_size /= out[m].lengths[1] \div cfg.bin_size

\* C25: a bucket is sorted by length descending and carved into contiguous
\* runs: the lengths of every batch are non-increasing, and of two batches
\* carved from one bucket no length of the earlier one is below a length of
\* the later one.
C25_SortedDescending ==
    bstate = "returned" =>
        /\ \A n \in DOMAIN out : \A i, j \in DOMAIN out[n].lengths :
            i < j => out[n].lengths[i] >= out[n].lengths[j]
        /\ \A n, m \in DOMAIN carved :
            (n < m /\ BinKey(carved[n].lengths[1], cfg)
                        = BinKey(carved[m].lengths[1], cfg)) =>
                \A i \in DOMAIN carved[n].lengths, j \in DOMAIN carved[m].lengths :
                    carved[n].lengths[i] >= carved[m].lengths[j]

C25_Witness ==
    /\ bstate = "returned"
    /\ items /= <<>>
    /\ items[1] /= None
    /\ \E n, m \in DOMAIN carved :
        /\ n < m
        /\ BinKey(carved[n].lengths[1], cfg) = BinKey(carved[m].lengths[1], cfg)
        /\ carved[n].lengths[1] > carved[m].lengths[1]
        /\ carved[m].lengths[1] = Min(items[1].length, cfg.max_seq_len)

\* C26: a batch is padded to its own maximum: its time dimension is the
\* largest length among its artifacts, the rows of an artifact up to its
\* length are its data, and every row from its length on is zero.
C26_PaddedToOwnMax ==
    bstate = "returned" =>
        \A n \in DOMAIN out :
            /\ Width(out[n]) = MaxOf(out[n].lengths)
            /\ \A j \in DOMAIN out[n].padded :
                /\ Len(out[n].padded[j]) = MaxOf(out[n].lengths)
                /\ \A t \in DOMAIN out[n].padded[j] :
                    IF t <= out[n].lengths[j]
                    THEN out[n].padded[j][t]
                            = items[Owner(out[n].padded[j])].tensor[t]
                    ELSE out[n].padded[j][t] = ZeroRow

C26_Witness ==
    /\ bstate = "returned"
    /\ \E n, m \in DOMAIN out :
        /\ Width(out[n]) < Width(out[m])
        /\ \E j \in DOMAIN out[m].padded :
            /\ out[m].lengths[j] >= 1
            /\ out[m].lengths[j] < Width(out[m])

\* how often batch b occurs in a list of batches
Occurrences(batches, b) == Cardinality({n \in DOMAIN batches : batches[n] = b})

\* C27: whatever the shuffle draws, the returned list is a permutation of the
\* list of carved batches: every batch occurs in it as often as it was
\* carved, unaltered, and nothing else does.
C27_ShuffleIsPermutation ==
    bstate = "returned" =>
        /\ Len(out) = Len(carved)
        /\ \A n \in DOMAIN out : \E m \in DOMAIN carved : out[n] = carved[m]
        /\ \A m \in DOMAIN carved :
            Occurrences(out, carved[m]) = Occurrences(carved, carved[m])

C27_Witness ==
    /\ bstate = "returned"
    /\ Len(out) >= 2
    /\ out /= carved
    /\ out[1] = carved[Len(carved)]

\* how often x occurs in a sequence
CountIn(seq, x) == Cardinality({i \in DOMAIN seq : seq[i] = x})

\* the list of bucket k of a dict of buckets
GroupOf(bins, k) ==
    IF \E b \in DOMAIN bins : bins[b].key = k
    THEN bins[CHOOSE b \in DOMAIN bins : bins[b].key = k].group
    ELSE <<>>

\* two dicts of buckets give every key the same multiset of artifacts
SameBuckets(bins1, bins2) ==
    \A k \in {bins1[b].key : b \in DOMAIN bins1}
                \cup {bins2[b].key : b \in DOMAIN bins2} :
        LET g1 == GroupOf(bins1, k)
            g2 == GroupOf(bins2, k)
        IN  \A a \in {g1[i] : i \in DOMAIN g1} \cup {g2[i] : i \in DOMAIN g2} :
                CountIn(g1, a) = CountIn(g2, a)

LengthsOf(batches) == [n \in DOMAIN batches |-> batches[n].lengths]

\* two lists of batches have the same multiset of lengths vectors
SameLengthVectors(batches1, batches2) ==
    LET l1 == LengthsOf(batches1)
        l2 == LengthsOf(batches2)
    IN  \A v \in {l1[n] : n \in DOMAIN l1} \cup {l2[n] : n \in DOMAIN l2} :
            CountIn(l1, v) = CountIn(l2, v)

\* C28: bucketing does not depend on the order of arrival: the call on any
\* permutation of the input ends as the call on the input did, gives every
\* bucket key the same multiset of artifacts, and carves batches with the
\* same multiset of lengths vectors (stated where the shuffle has left the
\* carved list as it was; the shuffle only reorders it).
C28_OrderIndependent ==
    (bstate /= "ready" /\ out = carved) =>
        \A p \in Shuffles(items) :
            LET g == GroupByLength(items, cfg)
                h == GroupByLength(p, cfg)
            IN  /\ h.raised = g.raised
                /\ h.raised = (bstate = "raised")
                /\ SameBuckets(h.bins, g.bins)
                /\ SameLengthVectors(CarveBins(h.bins, 1, cfg), carved)

C28_Witness ==
    /\ bstate = "returned"
    /\ Len(items) = 2
    /\ items[1] /= None
    /\ items[2] /= None
    /\ items[1].length < items[2].length
    /\ KeyOf(1) = KeyOf(2)
    /\ \E n \in DOMAIN out : Len(out[n].lengths) >= 2

----------------------------------------------------------------------------
(* Properties of the normalization *)

\* the place of a column in the rows of the tensor
FeatureIndex(col) == CHOOSE j \in DOMAIN FeatureCols : FeatureCols[j] = col

\* C21: a value of a numeric column that fails coercion to a number counts as
\* missing: the conversion of its track succeeds and has 0 at that position.
C21_FailedCoercionBecomesZero ==
    \A n \in DOMAIN log :
        log[n].converted =>
            LET track == raw[log[n].idx]
            IN  \A i \in DOMAIN track.rows, j \in DOMAIN NumericCols :
                    track.rows[i][NumericCols[j]] = Bad =>
                        /\ log[n].result /= None
                        /\ log[n].result.tensor[i][FeatureIndex(NumericCols[j])] = 0

\* the shape of a (tensor, length) pair: length rows of FeatureCount columns
WellShaped(a) ==
    /\ a.length = Len(a.tensor)
    /\ \A t \in DOMAIN a.tensor : Len(a.tensor[t]) = FeatureCount

\* C29: every artifact a conversion produces has a length equal to the row
\* count of its matrix, which is the row count of the CSV, and FeatureCount
\* columns in the order date, lat, lon, sog, cog; every artifact stored in a
\* bucket has as length the row count of its matrix, the smaller of the
\* original row count and max_seq_len, and the same columns.
C29_ArtifactShape ==
    /\ FeatureCols = <<"date", "lat", "lon", "sog", "cog">>
    /\ \A i \in DOMAIN items :
        items[i] /= None =>
            /\ WellShaped(items[i])
            /\ items[i].length = Len(raw[i].rows)
            /\ \A t \in DOMAIN items[i].tensor, j \in DOMAIN FeatureCols :
                items[i].tensor[t][j] = F32(FillNa(raw[i].rows[t][FeatureCols[j]]))
    /\ bstate = "returned" =>
        LET bins == GroupByLength(items, cfg).bins
        IN  \A b \in DOMAIN bins : \A e \in DOMAIN bins[b].group :
                /\ WellShaped(bins[b].group[e])
                /\ \E i \in ValidIndices :
                    /\ bins[b].group[e].length = Min(Len(raw[i].rows), cfg.max_seq_len)
                    /\ bins[b].group[e].tensor
                         = SubSeq(items[i].tensor, 1, bins[b].group[e].length)

C29_Witness ==
    /\ bstate = "returned"
    /\ \E i \in ValidIndices : items[i].length > cfg.max_seq_len
    /\ \E i \in ValidIndices : items[i].length <= cfg.max_seq_len
    /\ out /= <<>>

----------------------------------------------------------------------------
(* Properties of the filtering window *)

\* C30: whatever filter completions, next and previous calls have happened,
\* current_file_index lies within 0 .. len(current_trajectory_files) - 1 when
\* the list is not empty, and neither show nor save has indexed out of range.
C30_IndexInRange ==
    /\ current_trajectory_files /= <<>> =>
        /\ current_file_index >= 0
        /\ current_file_index <= Len(current_trajectory_files) - 1
    /\ ~index_error

C30_Witness ==
    /\ Len(current_trajectory_files) >= 2
    /\ current_file_index = Len(current_trajectory_files) - 1
    /\ shown = current_trajectory_files[Len(current_trajectory_files)]
    /\ shown \in saved
    /\ processors > 0

====
